---- MODULE Spec2Model ----
(***************************************************************************)
(* rusted-mapper: the log parsing pipeline of rm-core.                     *)
(*                                                                         *)
(* Log text is a sequence of tokens.  Every token stands for one fixed     *)
(* piece of text (the string that names it); a Content delta carries       *)
(* whole tokens, and offsets into the buffer are counted in tokens.  A     *)
(* decimal number in the text is a run of digit tokens, so a delta         *)
(* boundary may fall inside a number.  Parsed integers are kept as their   *)
(* canonical decimal digit sequences (no leading zeros).                   *)
(***************************************************************************)
EXTENDS Integers, Sequences, FiniteSets, TLC

(* ------------------------------------------------------------------ *)
(* Bounds                                                              *)
(* ------------------------------------------------------------------ *)
MaxChunk == 2
MaxQueue == 1
MaxOpens == 2
MaxCmds == 2

(* ------------------------------------------------------------------ *)
(* Tokens of the log text                                              *)
(* ------------------------------------------------------------------ *)
NL == "\n"
SB == "Builder.Build buildSeed: "
SH == " hostIDSeed: "
SS == " sessionSeed: "
SM == "ServerManager: 'new session rundown: Local_"
EX == ", expedition: "
NB == "Next Batch: SetupFloor"
LB == "Last Batch: SetupFloor"
ZA == "Alias: "
ZO == " aliasOffset: Zone_"
CR == "Zone Created in Reality MainLayer"
CD == "Zone Created in Dimension_1 SecondaryLayer"
NOISE == "GameStateManager noise"

DigitToks == {"0", "1", "2", "7", "8", "9", "10", "11", "31", "32", "33", "34", "35", "36", "37", "38", "39",
              "41", "99", "300", "4294967296"}
LetterToks == {"A", "B", "C"}
CreatedToks == {CR, CD}
Dim(t) == IF t = CR THEN "Reality" ELSE "Dimension_1"
Layer(t) == IF t = CR THEN "MainLayer" ELSE "SecondaryLayer"

\* the decimal digits a digit token is written with
DigitsOfToken ==
    ("0" :> <<0>>) @@ ("1" :> <<1>>) @@ ("2" :> <<2>>) @@ ("7" :> <<7>>) @@ ("8" :> <<8>>) @@
    ("9" :> <<9>>) @@ ("10" :> <<1, 0>>) @@ ("11" :> <<1, 1>>) @@ ("31" :> <<3, 1>>) @@
    ("32" :> <<3, 2>>) @@ ("33" :> <<3, 3>>) @@ ("34" :> <<3, 4>>) @@ ("35" :> <<3, 5>>) @@
    ("36" :> <<3, 6>>) @@ ("37" :> <<3, 7>>) @@ ("38" :> <<3, 8>>) @@ ("39" :> <<3, 9>>) @@
    ("41" :> <<4, 1>>) @@ ("99" :> <<9, 9>>) @@ ("300" :> <<3, 0, 0>>) @@
    ("4294967296" :> <<4, 2, 9, 4, 9, 6, 7, 2, 9, 6>>)

Digits(t) == DigitsOfToken[t]

\* the character of a decimal digit
DigitChar(d) == <<"0", "1", "2", "3", "4", "5", "6", "7", "8", "9">>[d + 1]

Max(S) == CHOOSE x \in S : \A y \in S : y <= x
Min(S) == CHOOSE x \in S : \A y \in S : x <= y

(* ------------------------------------------------------------------ *)
(* str::parse::<u32>() and str::parse::<u8>() on a captured \d+        *)
(* ------------------------------------------------------------------ *)
U32MaxDigits == <<4, 2, 9, 4, 9, 6, 7, 2, 9, 5>>
U8MaxDigits == <<2, 5, 5>>

RECURSIVE StripZeros(_)
StripZeros(ds) ==
    IF Len(ds) > 1 /\ Head(ds) = 0 THEN StripZeros(Tail(ds)) ELSE ds

\* a > b for digit sequences of equal length
RECURSIVE LexGreater(_, _)
LexGreater(a, b) ==
    IF a = <<>> THEN FALSE
    ELSE IF Head(a) # Head(b) THEN Head(a) > Head(b)
    ELSE LexGreater(Tail(a), Tail(b))

\* Ok(v) when the number fits the type, Err otherwise
ParseUnsigned(ds, maxDigits) ==
    LET c == StripZeros(ds) IN
    IF Len(c) > Len(maxDigits) \/ (Len(c) = Len(maxDigits) /\ LexGreater(c, maxDigits))
    THEN [ok |-> FALSE, v |-> <<>>]
    ELSE [ok |-> TRUE, v |-> c]

ParseU32(ds) == ParseUnsigned(ds, U32MaxDigits)
ParseU8(ds) == ParseUnsigned(ds, U8MaxDigits)

\* the value of a canonical digit sequence that fits a u8
RECURSIVE ToInt(_)
ToInt(c) == IF c = <<>> THEN 0 ELSE 10 * ToInt(SubSeq(c, 1, Len(c) - 1)) + c[Len(c)]

(* ------------------------------------------------------------------ *)
(* Rundown::from_repr(..).unwrap_or(Rundown::Modded)                    *)
(* ------------------------------------------------------------------ *)
RundownFromRepr(n) ==
    CASE n = 31 -> "R7"
      [] n = 32 -> "R1"
      [] n = 33 -> "R2"
      [] n = 34 -> "R3"
      [] n = 35 -> "R8"
      [] n = 37 -> "R4"
      [] n = 38 -> "R5"
      [] n = 41 -> "R6"
      [] OTHER -> "Modded"

(* ------------------------------------------------------------------ *)
(* Lines of a text ((?m): ^ after a newline or at 0, $ before a        *)
(* newline or at the end of the text)                                  *)
(* ------------------------------------------------------------------ *)
IsLineStart(buf, s) == s = 0 \/ buf[s] = NL
LineStarts(buf) == {s \in 0..Len(buf) : IsLineStart(buf, s)}
LineEnd(buf, s) == CHOOSE e \in s..Len(buf) :
    /\ (e = Len(buf) \/ buf[e + 1] = NL)
    /\ \A k \in (s + 1)..e : buf[k] # NL
Line(buf, s) == SubSeq(buf, s + 1, LineEnd(buf, s))

\* end of the longest run of digit tokens of l that starts at index i (i-1: none)
DigitRunEnd(l, i) == CHOOSE j \in (i - 1)..Len(l) :
    /\ \A k \in i..j : l[k] \in DigitToks
    /\ (j = Len(l) \/ l[j + 1] \notin DigitToks)

RECURSIVE DigitsOf(_, _, _)
DigitsOf(l, i, j) == IF i > j THEN <<>> ELSE Digits(l[i]) \o DigitsOf(l, i + 1, j)

(* ------------------------------------------------------------------ *)
(* The pattern catalog (mod re).  A match is a record of the offsets   *)
(* of group 0 and the captured groups; an Option is a sequence of      *)
(* length 0 or 1.                                                      *)
(* ------------------------------------------------------------------ *)
\* indices i of line l where "Builder.Build..buildSeed:\s(\d+)\shostIDSeed:\s(\d+)\ssessionSeed:\s(\d+)" matches
SeedsAt(l) == {i \in 1..Len(l) :
    /\ l[i] = SB
    /\ LET e1 == DigitRunEnd(l, i + 1) IN
       /\ e1 >= i + 1 /\ e1 + 1 <= Len(l) /\ l[e1 + 1] = SH
       /\ LET e2 == DigitRunEnd(l, e1 + 2) IN
          /\ e2 >= e1 + 2 /\ e2 + 1 <= Len(l) /\ l[e2 + 1] = SS
          /\ DigitRunEnd(l, e2 + 2) >= e2 + 2}

\* BUILDER_LEVEL_SEEDS.captures_iter(buf).last()
BUILDER_LEVEL_SEEDS(buf) ==
    LET M == {s \in LineStarts(buf) : SeedsAt(Line(buf, s)) # {}} IN
    IF M = {} THEN <<>>
    ELSE LET s == Max(M)
             l == Line(buf, s)
             i == Max(SeedsAt(l))
             e1 == DigitRunEnd(l, i + 1)
             e2 == DigitRunEnd(l, e1 + 2)
             e3 == DigitRunEnd(l, e2 + 2)
         IN <<[start |-> s, end |-> LineEnd(buf, s),
               build |-> DigitsOf(l, i + 1, e1),
               hostId |-> DigitsOf(l, e1 + 2, e2),
               session |-> DigitsOf(l, e2 + 2, e3)]>>

\* the characters \w\d can match at the head of the tokens l[i..]: a letter
\* or digit and then a digit; no other token begins with such a pair
ExpAt(l, i) ==
    IF i > Len(l) THEN <<>>
    ELSE IF l[i] \in DigitToks /\ Len(Digits(l[i])) >= 2
         THEN <<<<DigitChar(Digits(l[i])[1]), DigitChar(Digits(l[i])[2])>>>>
    ELSE IF l[i] \in DigitToks \cup LetterToks /\ i + 1 <= Len(l) /\ l[i + 1] \in DigitToks
         THEN <<<<IF l[i] \in DigitToks THEN DigitChar(Digits(l[i])[1]) ELSE l[i],
                   DigitChar(Digits(l[i + 1])[1])>>>>
    ELSE <<>>

\* indices where "ServerManager:\s'new\ssession.*?rundown:\sLocal_(\d+),\sexpedition:\s(\w\d)" matches
SessionAt(l) == {i \in 1..Len(l) :
    /\ l[i] = SM
    /\ LET e1 == DigitRunEnd(l, i + 1) IN
       /\ e1 >= i + 1 /\ e1 + 1 <= Len(l) /\ l[e1 + 1] = EX
       /\ ExpAt(l, e1 + 2) # <<>>}

\* DROP_SERVER_MANAGER_NEW_SESSION.captures_iter(buf).last()
DROP_SERVER_MANAGER_NEW_SESSION(buf) ==
    LET M == {s \in LineStarts(buf) : SessionAt(Line(buf, s)) # {}} IN
    IF M = {} THEN <<>>
    ELSE LET s == Max(M)
             l == Line(buf, s)
             i == Max(SessionAt(l))
             e1 == DigitRunEnd(l, i + 1)
         IN <<[start |-> s, end |-> LineEnd(buf, s),
               rundown_idx |-> DigitsOf(l, i + 1, e1),
               rundown_exp |-> ExpAt(l, e1 + 2)[1]]>>

\* SETUP_FLOOR_BATCH_START.captures_iter(buf).last(): "^Next\sBatch:\sSetupFloor.*$"
SETUP_FLOOR_BATCH_START(buf) ==
    LET M == {s \in LineStarts(buf) : Len(Line(buf, s)) >= 1 /\ Line(buf, s)[1] = NB} IN
    IF M = {} THEN <<>> ELSE <<[start |-> Max(M), end |-> LineEnd(buf, Max(M))]>>

\* SETUP_FLOOR_BATCH_END.captures_iter(buf).last(): "^.*Last\sBatch:\sSetupFloor.*$"
SETUP_FLOOR_BATCH_END(buf) ==
    LET M == {s \in LineStarts(buf) : \E k \in 1..Len(Line(buf, s)) : Line(buf, s)[k] = LB} IN
    IF M = {} THEN <<>> ELSE <<[start |-> Max(M), end |-> LineEnd(buf, Max(M))]>>

\* indices where "Alias: (\d+).*aliasOffset: \w+_(\d+)" matches in line l
AliasAt(l) == {i \in 1..Len(l) :
    /\ l[i] = ZA
    /\ DigitRunEnd(l, i + 1) >= i + 1
    /\ \E k \in (DigitRunEnd(l, i + 1) + 1)..Len(l) : l[k] = ZO /\ DigitRunEnd(l, k + 1) >= k + 1}

\* "Zone\sCreated.*?in\s(\w+)\s(\w+)" matches in line l
CreatedAt(l) == {i \in 1..Len(l) : l[i] \in CreatedToks}

\* ZONE_CREATED.captures_iter(text): the stanzas of text from offset s on, in order.
\* A stanza is a line matching the Alias part followed, after one \s (the
\* newline), by a line matching the Zone Created part.
RECURSIVE ZoneCreatedFrom(_, _)
ZoneCreatedFrom(text, s) ==
    IF s > Len(text) THEN <<>>
    ELSE LET e == LineEnd(text, s)
             l == Line(text, s)
         IN IF e = Len(text) THEN <<>>
            ELSE LET l2 == Line(text, e + 1)
                     e2 == LineEnd(text, e + 1)
                 IN IF AliasAt(l) # {} /\ CreatedAt(l2) # {}
                    THEN LET i == Min(AliasAt(l))
                             a1 == DigitRunEnd(l, i + 1)
                             \* ".*aliasOffset" is greedy: the last aliasOffset of the line
                             k == Max({k \in (a1 + 1)..Len(l) :
                                        l[k] = ZO /\ DigitRunEnd(l, k + 1) >= k + 1})
                             c == Min(CreatedAt(l2))
                         IN <<[alias |-> DigitsOf(l, i + 1, a1),
                               local |-> DigitsOf(l, k + 1, DigitRunEnd(l, k + 1)),
                               dim |-> Dim(l2[c]), layer |-> Layer(l2[c])]>>
                            \o ZoneCreatedFrom(text, e2 + 1)
                    ELSE ZoneCreatedFrom(text, e + 1)

ZONE_CREATED(text) == ZoneCreatedFrom(text, 0)

(* ------------------------------------------------------------------ *)
(* Log files the game may write                                        *)
(* ------------------------------------------------------------------ *)
SeedsLine(b, h, x) == <<SB>> \o b \o <<SH>> \o h \o <<SS>> \o x \o <<NL>>
SessionLine(code, tier, idx) == <<SM, code, EX, tier, idx, NL>>
ZoneStanza(alias, local, created) == <<ZA, alias, ZO, local, NL, created, NL>>
BatchOf(stanzas) == <<NB, NL>> \o stanzas \o <<LB, NL>>

Seeds0 == SeedsLine(<<"7">>, <<"8">>, <<"9">>)
Session0 == SessionLine("35", "C", "2")
Zone10 == ZoneStanza("10", "0", CR)
Zone11 == ZoneStanza("11", "1", CD)
ZoneBig == ZoneStanza("4294967296", "2", CR)

SeedFiles ==
    { SeedsLine(<<"0", "7">>, <<"8">>, <<"1", "2">>),
      SeedsLine(<<"4294967296">>, <<"8">>, <<"9">>) }
SessionFiles ==
    { Seeds0 \o SessionLine("35", "B", "2"),
      Seeds0 \o SessionLine("32", "A", "0"),
      Seeds0 \o SessionLine("99", "A", "0"),
      Seeds0 \o SessionLine("300", "A", "0"),
      Session0 \o Seeds0 }
LevelFiles ==
    { Seeds0 \o Session0 \o BatchOf(Zone11 \o <<NOISE, NL>> \o Zone10),
      Seeds0 \o Session0 \o BatchOf(Zone10 \o ZoneBig \o Zone11),
      Seeds0 \o Session0 \o BatchOf(Zone10) \o <<NB, NL>> }
Files == SeedFiles \cup SessionFiles \cup LevelFiles
MaxFileLen == Max({Len(f) : f \in Files})

(* ------------------------------------------------------------------ *)
(* Messages                                                            *)
(* ------------------------------------------------------------------ *)
\* TailMsg
Content(x) == [kind |-> "Content", s |-> x]
TailNewFile == [kind |-> "NewFile", s |-> <<>>]
TailStopMsg == [kind |-> "Stop", s |-> <<>>]

\* ParserMsg
LevelSeedsMsg(b, h, x) == [kind |-> "LevelSeeds", v |-> <<b, h, x>>]
LevelInitMsg(rundown, exp) == [kind |-> "LevelInit", v |-> [rundown |-> rundown, exp_name |-> exp]]
GeneratedZoneMsg(z) == [kind |-> "GeneratedZone", v |-> z]
NewFileMsg == [kind |-> "NewFile", v |-> <<>>]

\* Zone { alias, local, dimension, layer, area: None }
ZoneOf(alias, local, dim, layer) ==
    [alias |-> alias, local |-> local, dimension |-> dim, layer |-> layer, area |-> "None"]

(* ------------------------------------------------------------------ *)
(* Parser::parser, the handling of one TailMsg                         *)
(* ------------------------------------------------------------------ *)
\* ParserManager::default()
ParserManagerDefault == [buffer |-> <<>>, pos |-> 0, state |-> "LevelSeeds"]

Outcome(pm, out, pc) == [pm |-> pm, out |-> out, pc |-> pc]

\* LevelSeedsArm moving on to the wrong state
LevelSeedsArm_Skips(pm) ==
    LET Matched(found) ==
            IF found = <<>> THEN Outcome(pm, <<>>, "running")
            ELSE LET cap == found[1]
                     pm1 == [pm EXCEPT !.pos = cap.end]
                     build_seed == ParseU32(cap.build)
                     host_seed == ParseU32(cap.hostId)
                     session_seed == ParseU32(cap.session)
                 IN IF ~build_seed.ok \/ ~host_seed.ok \/ ~session_seed.ok
                    THEN Outcome(pm1, <<>>, "failed")
                    ELSE Outcome([pm1 EXCEPT !.state = "LevelGeneration"],
                                 <<LevelSeedsMsg(build_seed.v, host_seed.v, session_seed.v)>>,
                                 "running")
    IN Matched(BUILDER_LEVEL_SEEDS(pm.buffer))

\* ParserState::LevelSeeds arm
LevelSeedsArm(pm) ==
    LET Matched(found) ==
            IF found = <<>> THEN Outcome(pm, <<>>, "running")
            ELSE LET cap == found[1]
                     pm1 == [pm EXCEPT !.pos = cap.end]
                     build_seed == ParseU32(cap.build)
                     host_seed == ParseU32(cap.hostId)
                     session_seed == ParseU32(cap.session)
                 IN IF ~build_seed.ok \/ ~host_seed.ok \/ ~session_seed.ok
                    THEN Outcome(pm1, <<>>, "failed")
                    ELSE Outcome([pm1 EXCEPT !.state = "LevelSelected"],
                                 <<LevelSeedsMsg(build_seed.v, host_seed.v, session_seed.v)>>,
                                 "running")
    IN Matched(BUILDER_LEVEL_SEEDS(pm.buffer))

\* a LevelSelected arm that does not move on to LevelGeneration
LevelSelectedArm_Stays(pm) ==
    LET Matched(found) ==
            IF found = <<>> THEN Outcome(pm, <<>>, "running")
            ELSE LET cap == found[1]
                     pm1 == [pm EXCEPT !.pos = cap.end]
                     rundown_idx == ParseU8(cap.rundown_idx)
                 IN IF ~rundown_idx.ok
                    THEN Outcome(pm1, <<>>, "failed")
                    ELSE Outcome(pm1,
                                 <<LevelInitMsg(RundownFromRepr(ToInt(rundown_idx.v)), cap.rundown_exp)>>,
                                 "running")
    IN Matched(DROP_SERVER_MANAGER_NEW_SESSION(pm.buffer))

\* ParserState::LevelSelected arm
LevelSelectedArm(pm) ==
    LET Matched(found) ==
            IF found = <<>> THEN Outcome(pm, <<>>, "running")
            ELSE LET cap == found[1]
                     pm1 == [pm EXCEPT !.pos = cap.end]
                     rundown_idx == ParseU8(cap.rundown_idx)
                 IN IF ~rundown_idx.ok
                    THEN Outcome(pm1, <<>>, "failed")
                    ELSE Outcome([pm1 EXCEPT !.state = "LevelGeneration"],
                                 <<LevelInitMsg(RundownFromRepr(ToInt(rundown_idx.v)), cap.rundown_exp)>>,
                                 "running")
    IN Matched(DROP_SERVER_MANAGER_NEW_SESSION(pm.buffer))

\* the Zone events of the stanzas before the first one whose alias or local
\* does not parse
RECURSIVE ZonesSent(_)
ZonesSent(caps) ==
    IF caps = <<>> THEN <<>>
    ELSE LET alias == ParseU32(Head(caps).alias)
             local == ParseU32(Head(caps).local)
         IN IF ~alias.ok \/ ~local.ok THEN <<>>
            ELSE <<GeneratedZoneMsg(ZoneOf(alias.v, local.v, Head(caps).dim, Head(caps).layer))>>
                 \o ZonesSent(Tail(caps))

\* ParserState::LevelGeneration arm
LevelGenerationArm(pm) ==
    LET batch_start == SETUP_FLOOR_BATCH_START(pm.buffer)
        batch_end == SETUP_FLOOR_BATCH_END(pm.buffer)
    IN IF batch_start = <<>> \/ batch_end = <<>> THEN Outcome(pm, <<>>, "running")
       ELSE LET start == batch_start[1].start
                end == batch_end[1].end
            IN IF start > end
               THEN \* &buffer[start..end] with start > end
                    Outcome(pm, <<>>, "panicked")
               ELSE LET caps == ZONE_CREATED(SubSeq(pm.buffer, start + 1, end))
                        sent == ZonesSent(caps)
                    IN IF Len(sent) < Len(caps)
                       THEN Outcome(pm, sent, "failed")
                       ELSE Outcome([pm EXCEPT !.state = "ItemGeneration"], sent, "running")

\* HandleContent keeping only the unconsumed text once a pattern has matched
HandleContent_Truncates(pm, x) ==
    LET pm1 == [pm EXCEPT !.buffer = pm.buffer \o x]
        r == CASE pm1.state = "LevelSeeds" -> LevelSeedsArm(pm1)
               [] pm1.state = "LevelSelected" -> LevelSelectedArm(pm1)
               [] pm1.state = "LevelGeneration" -> LevelGenerationArm(pm1)
               [] OTHER -> Outcome(pm1, <<>>, "running")
    IN IF r.pm.state = pm1.state THEN r
       ELSE [r EXCEPT !.pm.buffer = SubSeq(r.pm.buffer, r.pm.pos + 1, Len(r.pm.buffer))]

\* TailMsg::Content(s)
HandleContent(pm, x) ==
    LET pm1 == [pm EXCEPT !.buffer = pm.buffer \o x] IN
    CASE pm1.state = "LevelSeeds" -> LevelSeedsArm(pm1)
      [] pm1.state = "LevelSelected" -> LevelSelectedArm(pm1)
      [] pm1.state = "LevelGeneration" -> LevelGenerationArm(pm1)
      [] OTHER -> Outcome(pm1, <<>>, "running")

\* TailMsg::NewFile
HandleNewFile(pm) ==
    Outcome([pm EXCEPT !.buffer = <<>>, !.state = "LevelSeeds"], <<NewFileMsg>>, "running")

\* one iteration of the loop that received val
HandleMsg(pm, val) ==
    CASE val.kind = "Content" -> HandleContent(pm, val.s)
      [] val.kind = "NewFile" -> HandleNewFile(pm)
      [] val.kind = "Stop" -> Outcome(pm, <<>>, "stopped")

(* ------------------------------------------------------------------ *)
(* State                                                               *)
(* ------------------------------------------------------------------ *)
VARIABLES
    logfile,         \* Tailer: the open file's text, an Option
    offset,          \* Tailer: tokens of logfile read so far
    opens,           \* number of Open commands handled
    tail_pc,         \* Tailer loop: "running" | "stopped"
    data_rx,         \* channel Tailer -> Parser
    parser_pc,       \* Parser loop: "running" | "stopped" | "failed" | "panicked"
    parser_manager,  \* ParserManager { buffer, pos, state }
    events,          \* ParserMsg sent since the last NewFile was handled (it included)
    received,        \* the Content deltas handled since the last NewFile, concatenated
    last,            \* the loop iteration done last: the TailMsg, the manager before it, what it sent
    parser_rx,       \* channel Parser -> consumer
    sent,            \* every ParserMsg sent on parser_tx so far, in order
    consumed,        \* every ParserMsg the consumer's try_recv has returned so far, in order
    mapper,          \* Mapper { seeds, expedition, gatherables } and whether update() has panicked
    cmd_rx,          \* command channel owner -> Tailer
    handle,          \* the owning Parser value: "new" | "watching" | "dropped" | "panicked"
    tail_last,       \* the Tailer loop iteration done last: the command it took, what it sent
    watch_dir        \* the entries of watch_path when start_watcher scans it

appvars == <<parser_rx, sent, consumed, mapper>>
cmdvars == <<cmd_rx, handle, tail_last, watch_dir>>

vars == <<logfile, offset, opens, tail_pc, data_rx, parser_pc, parser_manager, events, received, last,
          parser_rx, sent, consumed, mapper, cmd_rx, handle, tail_last, watch_dir>>

NoMsg == [kind |-> "None", s |-> <<>>]

\* impl Default for Mapper, the fields the events change
MapperDefault ==
    [scroll_to_bottom |-> TRUE, seeds |-> <<>>, expedition |-> <<>>, gatherables |-> <<>>, pc |-> "running"]

NoCmd == [kind |-> "None", path |-> <<>>]

Init ==
    /\ logfile = <<>>
    /\ offset = 0
    /\ opens = 0
    /\ tail_pc = "running"
    /\ data_rx = <<>>
    /\ parser_pc = "running"
    /\ parser_manager = ParserManagerDefault
    /\ events = <<>>
    /\ received = <<>>
    /\ last = [msg |-> NoMsg, from |-> ParserManagerDefault, out |-> <<>>]
    /\ parser_rx = <<>>
    /\ sent = <<>>
    /\ consumed = <<>>
    /\ mapper = MapperDefault
    /\ cmd_rx = <<>>
    /\ handle = "watching"
    /\ tail_last = [cmd |-> NoCmd, read |-> <<>>, sent |-> <<>>]
    /\ watch_dir = {}

(* ------------------------------------------------------------------ *)
(* Tailer: Open(path), the poll tick, Stop                             *)
(* ------------------------------------------------------------------ *)
TailOpen(f) ==
    /\ tail_pc = "running"
    /\ opens < MaxOpens
    /\ Len(data_rx) < MaxQueue
    /\ logfile' = <<f>>
    /\ offset' = 0
    /\ opens' = opens + 1
    /\ data_rx' = Append(data_rx, TailNewFile)
    /\ UNCHANGED <<tail_pc, parser_pc, parser_manager, events, received, last>>
    /\ UNCHANGED <<appvars, cmdvars>>

\* what one tick may find appended since the last read
ChunkSizes(rem) == (1..(IF rem < MaxChunk THEN rem ELSE MaxChunk)) \cup (IF rem > 0 THEN {rem} ELSE {})

TailTick(n) ==
    /\ tail_pc = "running"
    /\ logfile # <<>>
    /\ Len(data_rx) < MaxQueue
    /\ n \in ChunkSizes(Len(logfile[1]) - offset)
    /\ data_rx' = Append(data_rx, Content(SubSeq(logfile[1], offset + 1, offset + n)))
    /\ offset' = offset + n
    /\ UNCHANGED <<logfile, opens, tail_pc, parser_pc, parser_manager, events, received, last>>
    /\ UNCHANGED <<appvars, cmdvars>>

TailStop ==
    /\ tail_pc = "running"
    /\ Len(data_rx) < MaxQueue
    /\ data_rx' = Append(data_rx, TailStopMsg)
    /\ tail_pc' = "stopped"
    /\ UNCHANGED <<logfile, offset, opens, parser_pc, parser_manager, events, received, last>>
    /\ UNCHANGED <<appvars, cmdvars>>

(* ------------------------------------------------------------------ *)
(* Parser: one loop iteration with a message in data_rx                *)
(* ------------------------------------------------------------------ *)
\* an iteration that drops the result of send
ParserIteration_IgnoresSendError ==
    /\ parser_pc = "running"
    /\ data_rx # <<>>
    /\ LET val == Head(data_rx) IN
       \E r \in {HandleMsg(parser_manager, val)} :
          /\ parser_manager' = r.pm
          /\ parser_pc' = r.pc
          /\ events' = IF val.kind = "NewFile" THEN r.out ELSE events \o r.out
          /\ received' = CASE val.kind = "Content" -> received \o val.s
                            [] val.kind = "NewFile" -> <<>>
                            [] OTHER -> received
          /\ last' = [msg |-> val, from |-> parser_manager, out |-> r.out]
    /\ data_rx' = Tail(data_rx)

\* one iteration: the message is handled and what it yields is sent; a send to
\* a dropped receiver fails and the error ends the loop
ParserIteration ==
    /\ parser_pc = "running"
    /\ data_rx # <<>>
    /\ LET val == Head(data_rx) IN
       \E r \in {HandleMsg(parser_manager, val)} :
          /\ parser_manager' = r.pm
          /\ parser_pc' = IF handle # "watching" /\ r.out # <<>> THEN "failed" ELSE r.pc
          /\ events' = IF val.kind = "NewFile" THEN r.out ELSE events \o r.out
          /\ received' = CASE val.kind = "Content" -> received \o val.s
                            [] val.kind = "NewFile" -> <<>>
                            [] OTHER -> received
          /\ last' = [msg |-> val, from |-> parser_manager, out |-> r.out]
    /\ data_rx' = Tail(data_rx)

\* the iteration seen from the data channel: what it sent is kept in events
ParserRecv ==
    /\ ParserIteration
    /\ UNCHANGED <<logfile, offset, opens, tail_pc>>
    /\ UNCHANGED <<appvars, cmdvars>>

Next ==
    \/ \E f \in Files : TailOpen(f)
    \/ \E n \in 1..MaxFileLen : TailTick(n)
    \/ TailStop
    \/ ParserRecv

Spec == Init /\ [][Next]_vars

(* ------------------------------------------------------------------ *)
(* Helpers of the properties                                           *)
(* ------------------------------------------------------------------ *)
\* the iteration done last handled a Content delta in parser state st
ContentDoneIn(st) == last.msg.kind = "Content" /\ last.from.state = st

\* every message sent by the Tailer has been handled by a Parser still running
AllHandled == data_rx = <<>> /\ parser_pc = "running" /\ tail_pc = "running"

\* the open file has been read to its end
FileDelivered == logfile # <<>> /\ offset = Len(logfile[1])

\* a text that is exactly one newline-terminated line
OneLine(f) == Len(f) >= 1 /\ f[Len(f)] = NL /\ \A k \in 1..(Len(f) - 1) : f[k] # NL

\* the ParserMsg a single Content delta with the whole text x produces on a fresh ParserManager
OneDelta(x) == HandleContent(ParserManagerDefault, x).out

\* the Content deltas waiting in a queue, concatenated
RECURSIVE Pending(_)
Pending(q) ==
    IF q = <<>> THEN <<>>
    ELSE (IF Head(q).kind = "Content" THEN Head(q).s ELSE <<>>) \o Pending(Tail(q))

\* the messages of q after its last NewFile (all of q if it has none)
AfterNewFile(q) ==
    LET N == {k \in 1..Len(q) : q[k].kind = "NewFile"} IN
    IF N = {} THEN q ELSE SubSeq(q, Max(N) + 1, Len(q))

ParserStateSucc(st) ==
    CASE st = "LevelSeeds" -> "LevelSelected"
      [] st = "LevelSelected" -> "LevelGeneration"
      [] st = "LevelGeneration" -> "ItemGeneration"
      [] st = "ItemGeneration" -> "ElevatorDropFinish"
      [] st = "ElevatorDropFinish" -> "LevelFinish"
      [] st = "LevelFinish" -> "NotInLevel"
      [] OTHER -> "None"

EventsOfKind(k) == SelectSeq(events, LAMBDA e : e.kind = k)

(* ------------------------------------------------------------------ *)
(* C1                                                                  *)
(* ------------------------------------------------------------------ *)
\* C1: a text holding one logical pattern (one line), delivered in any number
\* of Content deltas, makes the Parser send exactly the events that the same
\* text delivered in one single delta produces.
C1_ChunkingEquivalence ==
    (FileDelivered /\ AllHandled /\ OneLine(logfile[1]))
        => Tail(events) = OneDelta(logfile[1])

(* ------------------------------------------------------------------ *)
(* C2                                                                  *)
(* ------------------------------------------------------------------ *)
\* C2: the buffer is the concatenation, in order, of the Content deltas handled
\* since the last NewFile; together with the deltas still queued it is exactly
\* the part of the open file the Tailer has read.
C2_BufferIsConcatenation ==
    /\ parser_manager.buffer = received
    /\ logfile # <<>> =>
         (IF \E k \in 1..Len(data_rx) : data_rx[k].kind = "NewFile"
          THEN <<>> ELSE parser_manager.buffer) \o Pending(AfterNewFile(data_rx))
            = SubSeq(logfile[1], 1, offset)

\* a second delta was appended to a non-empty buffer after a state change, in
\* the second file incarnation
C2_Witness ==
    /\ opens = 2
    /\ last.msg.kind = "Content" /\ last.msg.s # <<>>
    /\ last.from.buffer # <<>>
    /\ last.from.state = "LevelSelected"
    /\ parser_manager.buffer = last.from.buffer \o last.msg.s

(* ------------------------------------------------------------------ *)
(* C3                                                                  *)
(* ------------------------------------------------------------------ *)
\* C3: after a NewFile is handled the Parser is in the first state with an
\* empty buffer and the cursor at 0, and has sent exactly one NewFile event.
C3_NewFileResets ==
    last.msg.kind = "NewFile" =>
        /\ parser_manager.state = "LevelSeeds"
        /\ parser_manager.buffer = <<>>
        /\ parser_manager.pos = 0
        /\ last.out = <<NewFileMsg>>

(* ------------------------------------------------------------------ *)
(* C4                                                                  *)
(* ------------------------------------------------------------------ *)
\* C4: a Content delta changes the life-cycle state only to the immediate
\* successor state; the state goes back to the first state only on NewFile.
C4_LinearForwardOnly ==
    [][parser_manager'.state # parser_manager.state =>
         IF Head(data_rx).kind = "Content"
         THEN parser_manager'.state = ParserStateSucc(parser_manager.state)
         ELSE Head(data_rx).kind = "NewFile" /\ parser_manager'.state = "LevelSeeds"]_vars

\* a NewFile took the Parser back from the last state it can reach
C4_Witness ==
    /\ last.msg.kind = "NewFile"
    /\ last.from.state = "ItemGeneration"
    /\ parser_manager.state = "LevelSeeds"

(* ------------------------------------------------------------------ *)
(* C5                                                                  *)
(* ------------------------------------------------------------------ *)
\* C5: when a Content delta is handled in LevelSeeds and the buffer holds a
\* builder-seeds line with digit strings B, H, S, the Parser sends exactly one
\* LevelSeeds(B, H, S), sets the cursor to the end of the match and moves to
\* LevelSelected; a file incarnation has at most one LevelSeeds event.
C5_SeedsEmitted ==
    /\ (ContentDoneIn("LevelSeeds") /\ BUILDER_LEVEL_SEEDS(parser_manager.buffer) # <<>>) =>
         LET cap == BUILDER_LEVEL_SEEDS(parser_manager.buffer)[1] IN
         /\ last.out = <<LevelSeedsMsg(StripZeros(cap.build), StripZeros(cap.hostId),
                                       StripZeros(cap.session))>>
         /\ parser_manager.pos = cap.end
         /\ parser_manager.state = "LevelSelected"
    /\ Len(EventsOfKind("LevelSeeds")) <= 1

(* ------------------------------------------------------------------ *)
(* C6                                                                  *)
(* ------------------------------------------------------------------ *)
\* the aliases of the zone-creation stanzas of a text, in file order: the
\* numbers after "Alias: " that fit the alias type
RECURSIVE StanzaAliases(_)
StanzaAliases(text) ==
    IF text = <<>> THEN <<>>
    ELSE IF Head(text) = ZA /\ Len(text) >= 2 /\ Tail(text)[1] \in DigitToks
              /\ ParseU32(Digits(Tail(text)[1])).ok
         THEN <<StripZeros(Digits(Tail(text)[1]))>> \o StanzaAliases(Tail(text))
         ELSE StanzaAliases(Tail(text))

\* C6: once Zone events have been sent for a batch, they are exactly the
\* aliases of the batch's stanzas, in file order, each once and none dropped.
C6_ZonesInFileOrder ==
    EventsOfKind("GeneratedZone") # <<>> =>
        [i \in 1..Len(EventsOfKind("GeneratedZone")) |-> EventsOfKind("GeneratedZone")[i].v.alias]
            = StanzaAliases(parser_manager.buffer)

(* ------------------------------------------------------------------ *)
(* C7                                                                  *)
(* ------------------------------------------------------------------ *)
\* the last batch-start line of buf has no batch-end marker after it
StartWithoutEnd(buf) ==
    /\ SETUP_FLOOR_BATCH_START(buf) # <<>>
    /\ \A k \in (SETUP_FLOOR_BATCH_START(buf)[1].start + 1)..Len(buf) : buf[k] # LB

\* C7: the Parser leaves LevelGeneration only with the end marker of the
\* observed batch-start in the buffer; a Content delta handled while the
\* batch-start has no end marker sends nothing and leaves the Parser in
\* LevelGeneration, running, to scan again on the next delta.
C7_WaitsForBatchEnd ==
    ContentDoneIn("LevelGeneration") =>
        /\ parser_manager.state = "ItemGeneration" => ~StartWithoutEnd(parser_manager.buffer)
        /\ StartWithoutEnd(parser_manager.buffer) =>
              /\ last.out = <<>>
              /\ parser_manager.state = "LevelGeneration"
              /\ parser_pc = "running"

(* ------------------------------------------------------------------ *)
(* C8                                                                  *)
(* ------------------------------------------------------------------ *)
\* the text of the buffer at or after offset p
Unconsumed(buf, p) == SubSeq(buf, p + 1, Len(buf))

\* C8: an event sent in LevelSelected comes from a match in the unconsumed
\* suffix of the buffer, the text at or after the cursor.
C8_ScansFromCursor ==
    (ContentDoneIn("LevelSelected") /\ last.out # <<>>) =>
        DROP_SERVER_MANAGER_NEW_SESSION(Unconsumed(parser_manager.buffer, last.from.pos)) # <<>>

(* ------------------------------------------------------------------ *)
(* C9                                                                  *)
(* ------------------------------------------------------------------ *)
\* C9: whenever a session-selected line is matched, whatever its rundown code,
\* the Parser sends a LevelInit event and keeps running.
C9_UnknownRundownNeverFails ==
    (ContentDoneIn("LevelSelected")
        /\ DROP_SERVER_MANAGER_NEW_SESSION(parser_manager.buffer) # <<>>) =>
        /\ parser_pc = "running"
        /\ Len(last.out) = 1 /\ last.out[1].kind = "LevelInit"

(* ------------------------------------------------------------------ *)
(* C10                                                                 *)
(* ------------------------------------------------------------------ *)
\* impl Display for Level: the expedition name shown for a Level
LevelDisplayExp(level) ==
    IF level.exp_name # <<"E", "3">> THEN level.exp_name ELSE <<"E", "2">>

\* the number a digit character stands for
DigitOfChar(c) == CHOOSE d \in 0..9 : DigitChar(d) = c

\* C10: the expedition index of an emitted LevelInit is the raw index of the
\* matched line for R8 with tier A, C, D or E and raw index 2, and the raw
\* index plus one in every other case.
C10_ExpeditionIndexCorrection ==
    (ContentDoneIn("LevelSelected") /\ last.out # <<>>) =>
        LET cap == DROP_SERVER_MANAGER_NEW_SESSION(parser_manager.buffer)[1]
            level == last.out[1].v
            tier == cap.rundown_exp[1]
            raw == DigitOfChar(cap.rundown_exp[2])
        IN DigitOfChar(LevelDisplayExp(level)[2]) =
             IF level.rundown = "R8" /\ tier \in {"A", "C", "D", "E"} /\ raw = 2
             THEN raw ELSE raw + 1

(* ------------------------------------------------------------------ *)
(* C11                                                                 *)
(* ------------------------------------------------------------------ *)
\* C11: a matched line whose captured number does not fit its integer type is
\* skipped: the Parser loop is never ended by a conversion failure, and the
\* well-formed stanzas of a batch that has such a stanza still get their Zone
\* events.
C11_ConversionFailureSkipped ==
    /\ parser_pc # "failed"
    /\ (ContentDoneIn("LevelGeneration") /\ last.out # <<>>) =>
          Len(last.out) = Len(StanzaAliases(parser_manager.buffer))

(* ------------------------------------------------------------------ *)
(* Item generation and level end: the lines of re.rs that follow the   *)
(* SetupFloor batch, and the log files that hold them                  *)
(* ------------------------------------------------------------------ *)
DS == "Next Batch: Distribution"
DE == "Last Batch: Distribution"
FS == "Next Batch: FunctionMarkers"
FE == "Last Batch: FunctionMarkers"
\* a "distribute warden objective" pair of lines, by its itemID
WO128 == "SelectZone zone ZONE10 Index: 0 / itemID: 128"
WO133 == "SelectZone zone ZONE10 Index: 1 / itemID: 133"
\* a "generic small pickup" stanza of three lines, by its container and seed
PK5 == "Spawning Personnel Key: Locker_A / seed: 5 / PersonnelPickup_Core."
PK6 == "Spawning Personnel Key: Box_B / seed: 6 / PersonnelPickup_Core."
\* a game-state transition out of the level
RT == "GAMESTATEMANAGER CHANGE STATE FROM : InLevel TO : NoLobby"

ObjectiveToks == {WO128, WO133}
PickupToks == {PK5, PK6}

\* ItemIdentifier::from_repr of the itemID of an objective line
ItemIdentifierOf(t) == IF t = WO128 THEN "ID" ELSE "FogTurbine"

\* the "seeded container" subset of ItemIdentifier
SeededIdentifiers == {"ID", "PD", "GLP1", "OSIP", "PlantSample", "DataCube", "GLP2"}

PickupContainer(t) == IF t = PK5 THEN "Locker_A" ELSE "Box_B"
PickupSeed(t) == IF t = PK5 THEN <<5>> ELSE <<6>>

\* the positions of the lines of buf that match a one-line marker pattern
MarkerLines(buf, t) == {k \in 1..Len(buf) : buf[k] = t}

DISTRIBUTION_BATCH_START(buf) == MarkerLines(buf, DS)
DISTRIBUTION_BATCH_END(buf) == MarkerLines(buf, DE)
FUNCTION_MARKERS_BATCH_START(buf) == MarkerLines(buf, FS)
FUNCTION_MARKERS_BATCH_END(buf) == MarkerLines(buf, FE)

DistributionOf(items) == <<DS, NL>> \o items \o <<DE, NL>>
FunctionMarkersOf(pickups) == <<FS, NL>> \o pickups \o <<FE, NL>>

Level0 == Seeds0 \o Session0 \o BatchOf(Zone10)
Items0 == DistributionOf(<<WO133, NL, WO128, NL>>) \o FunctionMarkersOf(<<PK5, NL, PK6, NL>>)

ItemFiles ==
    { Level0 \o Items0,
      Level0 \o DistributionOf(<<>>) \o FunctionMarkersOf(<<PK6, NL>>),
      Level0 \o <<RT, NL>> \o Seeds0 }

MaxItemFileLen == Max({Len(f) : f \in ItemFiles})

ItemNext ==
    \/ \E f \in ItemFiles : TailOpen(f)
    \/ \E n \in 1..MaxItemFileLen : TailTick(n)
    \/ TailStop
    \/ ParserRecv

ItemSpec == Init /\ [][ItemNext]_vars

\* the text of buf between the first line t1 and the first line t2 after it,
\* <<>> while the segment is not complete
SegmentOf(buf, t1, t2) ==
    LET S == MarkerLines(buf, t1)
        E == IF S = {} THEN {} ELSE {k \in MarkerLines(buf, t2) : k > Min(S)}
    IN IF E = {} THEN <<>> ELSE SubSeq(buf, Min(S), Min(E))

\* a complete Distribution batch and a complete FunctionMarkers batch after it
BothSegments(buf) ==
    /\ SegmentOf(buf, DS, DE) # <<>>
    /\ SegmentOf(buf, FS, FE) # <<>>
    /\ Min(MarkerLines(buf, FS)) > Min({k \in MarkerLines(buf, DE) : k > Min(MarkerLines(buf, DS))})

Toks(text, S) == SelectSeq(text, LAMBDA t : t \in S)

\* the queue of seeded-container item codes of the Distribution segment
SeededQueue(buf) ==
    SelectSeq([i \in 1..Len(Toks(SegmentOf(buf, DS, DE), ObjectiveToks)) |->
                  ItemIdentifierOf(Toks(SegmentOf(buf, DS, DE), ObjectiveToks)[i])],
              LAMBDA c : c \in SeededIdentifiers)

GatherableMsg(item, container, seed) ==
    [kind |-> "Gatherable", v |-> [item |-> item, container |-> container, seed |-> seed]]

\* the events the positional pairing gives for the pickups of the FunctionMarkers segment
PairedPickups(buf) ==
    LET pk == Toks(SegmentOf(buf, FS, FE), PickupToks)
        q == SeededQueue(buf)
    IN [i \in 1..Len(pk) |->
          GatherableMsg(IF i <= Len(q) THEN q[i] ELSE "Seeded",
                        PickupContainer(pk[i]), PickupSeed(pk[i]))]

(* ------------------------------------------------------------------ *)
(* C12                                                                 *)
(* ------------------------------------------------------------------ *)
\* C12: once a Content delta is handled in ItemGeneration with both segments
\* in the buffer, every pickup of the FunctionMarkers segment has exactly one
\* Gatherable event, in order: typed by the head of the queue of seeded item
\* codes of the Distribution segment, Seeded when the queue is exhausted; and
\* the Parser has not panicked.
C12_PositionalPairing ==
    (ContentDoneIn("ItemGeneration") /\ BothSegments(parser_manager.buffer)) =>
        /\ EventsOfKind("Gatherable") = PairedPickups(parser_manager.buffer)
        /\ parser_pc # "panicked"

(* ------------------------------------------------------------------ *)
(* C13                                                                 *)
(* ------------------------------------------------------------------ *)
\* C13: the Parser leaves ItemGeneration only with both segments complete in
\* the buffer, and a Content delta handled in ItemGeneration with both segments
\* complete moves it to ElevatorDropFinish.
C13_ItemGenerationProceeds ==
    /\ parser_manager.state = "ElevatorDropFinish" => BothSegments(parser_manager.buffer)
    /\ (ContentDoneIn("ItemGeneration") /\ BothSegments(parser_manager.buffer)) =>
          parser_manager.state = "ElevatorDropFinish"

(* ------------------------------------------------------------------ *)
(* C14                                                                 *)
(* ------------------------------------------------------------------ *)
\* the delta ends with the complete line of a reset trigger
EndsWithTrigger(x) == Len(x) >= 2 /\ x[Len(x) - 1] = RT /\ x[Len(x)] = NL

\* C14: a Content delta that ends with a reset trigger makes the Parser send a
\* reset event and go back to LevelSeeds with the buffer empty and the cursor
\* at 0; a file with a second level after the trigger, handled to its end, has
\* the LevelSeeds event of that second level too.
C14_ResetOnTrigger ==
    /\ (last.msg.kind = "Content" /\ EndsWithTrigger(last.msg.s)) =>
          /\ \E i \in 1..Len(last.out) : last.out[i].kind \in {"Reset", "LevelFinish", "NewFile"}
          /\ parser_manager = ParserManagerDefault
    /\ (FileDelivered /\ AllHandled /\ logfile[1] = Level0 \o <<RT, NL>> \o Seeds0) =>
          Len(EventsOfKind("LevelSeeds")) = 2

(* ------------------------------------------------------------------ *)
(* Parser and consumer: the channel of ParserMsg and Mapper::update    *)
(* ------------------------------------------------------------------ *)
\* the iteration with its parser_tx.send calls put on the channel
ParserSend ==
    /\ ParserIteration
    /\ parser_rx' = parser_rx \o last'.out
    /\ sent' = sent \o last'.out
    /\ UNCHANGED <<logfile, offset, opens, tail_pc, consumed, mapper, cmdvars>>

\* a NewFile arm that leaves the gatherables
MapperApply_KeepsGatherables(m, msg) ==
    CASE msg.kind = "NewFile" ->
           [m EXCEPT !.seeds = <<>>, !.expedition = <<>>]
      [] msg.kind = "LevelSeeds" -> [m EXCEPT !.seeds = <<msg.v>>]
      [] msg.kind = "LevelInit" ->
           [m EXCEPT !.expedition = <<[level |-> msg.v, zones |-> <<>>]>>]
      [] msg.kind = "GeneratedZone" ->
           IF m.expedition = <<>> THEN [m EXCEPT !.pc = "panicked"]
           ELSE [m EXCEPT !.expedition = <<[level |-> m.expedition[1].level,
                                            zones |-> Append(m.expedition[1].zones, msg.v)]>>]
      [] msg.kind = "Gatherable" -> [m EXCEPT !.gatherables = Append(m.gatherables, msg.v)]
      [] OTHER -> m

\* a match with no LevelInit arm: the event falls to the catch-all
MapperApply_IgnoresLevelInit(m, msg) ==
    CASE msg.kind = "NewFile" ->
           [m EXCEPT !.gatherables = <<>>, !.seeds = <<>>, !.expedition = <<>>]
      [] msg.kind = "LevelSeeds" -> [m EXCEPT !.seeds = <<msg.v>>]
      [] msg.kind = "GeneratedZone" ->
           IF m.expedition = <<>> THEN [m EXCEPT !.pc = "panicked"]
           ELSE [m EXCEPT !.expedition = <<[level |-> m.expedition[1].level,
                                            zones |-> Append(m.expedition[1].zones, msg.v)]>>]
      [] msg.kind = "Gatherable" -> [m EXCEPT !.gatherables = Append(m.gatherables, msg.v)]
      [] OTHER -> m

\* the match of Mapper::update on a received ParserMsg
MapperApply(m, msg) ==
    CASE msg.kind = "NewFile" ->
           [m EXCEPT !.gatherables = <<>>, !.seeds = <<>>, !.expedition = <<>>]
      [] msg.kind = "LevelSeeds" -> [m EXCEPT !.seeds = <<msg.v>>]
      [] msg.kind = "LevelInit" ->
           [m EXCEPT !.expedition = <<[level |-> msg.v, zones |-> <<>>]>>]
      [] msg.kind = "GeneratedZone" ->
           IF m.expedition = <<>> THEN [m EXCEPT !.pc = "panicked"]
           ELSE [m EXCEPT !.expedition = <<[level |-> m.expedition[1].level,
                                            zones |-> Append(m.expedition[1].zones, msg.v)]>>]
      [] msg.kind = "Gatherable" -> [m EXCEPT !.gatherables = Append(m.gatherables, msg.v)]
      [] OTHER -> m

\* an update() that takes every waiting message and keeps only the newest
MapperUpdate_KeepsNewest ==
    /\ mapper.pc = "running"
    /\ parser_rx # <<>>
    /\ mapper' = MapperApply(mapper, parser_rx[Len(parser_rx)])
    /\ consumed' = Append(consumed, parser_rx[Len(parser_rx)])
    /\ parser_rx' = <<>>
    /\ UNCHANGED <<logfile, offset, opens, tail_pc, data_rx, parser_pc, parser_manager,
                   events, received, last, sent, cmdvars>>

\* one update() of the consumer that finds a message: try_recv takes the head
MapperUpdate ==
    /\ mapper.pc = "running"
    /\ parser_rx # <<>>
    /\ mapper' = MapperApply(mapper, Head(parser_rx))
    /\ consumed' = Append(consumed, Head(parser_rx))
    /\ parser_rx' = Tail(parser_rx)
    /\ UNCHANGED <<logfile, offset, opens, tail_pc, data_rx, parser_pc, parser_manager,
                   events, received, last, sent, cmdvars>>

AppFiles == { Seeds0 \o Session0 }

MaxAppFileLen == Max({Len(f) : f \in AppFiles})

AppNext ==
    \/ \E f \in AppFiles : TailOpen(f)
    \/ \E n \in 1..MaxAppFileLen : TailTick(n)
    \/ TailStop
    \/ ParserSend
    \/ MapperUpdate

AppSpec == Init /\ [][AppNext]_vars

(* ------------------------------------------------------------------ *)
(* C15                                                                 *)
(* ------------------------------------------------------------------ *)
\* C15: what the consumer has received, followed by what waits in the channel,
\* is exactly what the Parser has sent, in the order it sent it: nothing lost,
\* duplicated or reordered, whatever the interleaving of the two loops.
C15_ChannelOrder == consumed \o parser_rx = sent

\* the consumer has received the events of a first file and lags behind the
\* Parser: the three events of the second file wait in the channel
C15_Witness ==
    /\ opens = 2
    /\ Len(consumed) = 3 /\ consumed[3].kind = "LevelInit"
    /\ Len(parser_rx) = 3
    /\ parser_rx[1].kind = "NewFile" /\ parser_rx[3].kind = "LevelInit"

(* ------------------------------------------------------------------ *)
(* The owning Parser value, the command channel and the Tail thread of *)
(* tail.rs                                                             *)
(* ------------------------------------------------------------------ *)
OpenCmd(f) == [kind |-> "Open", path |-> <<f>>]
StopCmd == [kind |-> "Stop", path |-> <<>>]

TailFiles == { <<NOISE, NL>> }

MaxTailFileLen == Max({Len(f) : f \in TailFiles})

\* a path that File::open cannot open: the file was removed, or is locked,
\* between the watcher's event and the Tail thread's open
NoSuchFile == <<"No such file or directory (os error 2)">>

TailPaths == TailFiles \cup {NoSuchFile}

\* the marker of a session log's file name
NICKNAME_NETSTATUS == "NICKNAME_NETSTATUS"

\* an entry of the watched directory: the parts of its file name, its time of
\* modification and its text
DirEntry(name, modified, text) == [name |-> name, modified |-> modified, text |-> text]

OlderLog == DirEntry(<<"GTFO.2024.01.01.", NICKNAME_NETSTATUS, ".txt">>, 1, <<NOISE, NL>>)
NewerLog == DirEntry(<<"GTFO.2024.01.02.", NICKNAME_NETSTATUS, ".txt">>, 2, Seeds0)
TwinLog == DirEntry(<<"GTFO.2024.01.02b.", NICKNAME_NETSTATUS, ".txt">>, 2, <<NL>>)
PlayerLog == DirEntry(<<"Player.log">>, 3, <<NOISE, NL, NL>>)

\* file_name().contains("NICKNAME_NETSTATUS")
NameMatches(e) == \E i \in 1..Len(e.name) : e.name[i] = NICKNAME_NETSTATUS

\* a scan that sorts the entries oldest first
Scan_OldestFirst(dir) ==
    LET matches == {e \in dir : NameMatches(e)}
    IN IF matches = {} THEN {<<>>}
       ELSE {<<e.text>> : e \in {m \in matches : \A o \in matches : o.modified >= m.modified}}

\* the startup scan: the entries sorted by time of modification, newest
\* first, and the first of them whose name matches, if any; entries of equal
\* time keep the order the directory walk gave them, which is any
Scan(dir) ==
    LET matches == {e \in dir : NameMatches(e)}
    IN IF matches = {} THEN {<<>>}
       ELSE {<<e.text>> : e \in {m \in matches : \A o \in matches : o.modified <= m.modified}}

TailDirs == { {}, {OlderLog} }

ScanDirs == SUBSET {OlderLog, NewerLog, TwinLog, PlayerLog}

\* Parser::new: no thread yet, tail_cmd_tx and rx are None
NewParser ==
    /\ logfile = <<>>
    /\ offset = 0
    /\ opens = 0
    /\ tail_pc = "unstarted"
    /\ data_rx = <<>>
    /\ parser_pc = "unstarted"
    /\ parser_manager = ParserManagerDefault
    /\ events = <<>>
    /\ received = <<>>
    /\ last = [msg |-> NoMsg, from |-> ParserManagerDefault, out |-> <<>>]
    /\ parser_rx = <<>>
    /\ sent = <<>>
    /\ consumed = <<>>
    /\ mapper = MapperDefault
    /\ cmd_rx = <<>>
    /\ handle = "new"
    /\ tail_last = [cmd |-> NoCmd, read |-> <<>>, sent |-> <<>>]

TailInit == NewParser /\ watch_dir \in TailDirs


\* start_watcher: both threads are spawned, the handle keeps the command
\* sender, and the startup scan sends Open for the log file it finds, if any
StartWatcher(found) ==
    /\ handle = "new"
    /\ found \in Scan(watch_dir)
    /\ handle' = "watching"
    /\ tail_pc' = "running"
    /\ parser_pc' = "running"
    /\ cmd_rx' = IF found = <<>> THEN cmd_rx ELSE Append(cmd_rx, OpenCmd(found[1]))
    /\ opens' = IF found = <<>> THEN opens ELSE opens + 1
    /\ UNCHANGED <<logfile, offset, data_rx, parser_manager, events, received, last,
                   appvars, tail_last, watch_dir>>

\* the directory watcher's callback on the creation of a log file
WatcherCreate(f) ==
    /\ handle = "watching"
    /\ tail_pc = "running"
    /\ opens < MaxOpens
    /\ Len(cmd_rx) < MaxCmds
    /\ cmd_rx' = Append(cmd_rx, OpenCmd(f))
    /\ opens' = opens + 1
    /\ UNCHANGED <<logfile, offset, tail_pc, data_rx, parser_pc, parser_manager, events,
                   received, last, appvars, handle, tail_last, watch_dir>>

\* stop_tail on a started handle; the send fails once the Tail thread is gone
StopTail ==
    /\ handle = "watching"
    /\ tail_pc = "running"
    /\ Len(cmd_rx) < MaxCmds
    /\ cmd_rx' = Append(cmd_rx, StopCmd)
    /\ UNCHANGED <<logfile, offset, opens, tail_pc, data_rx, parser_pc, parser_manager,
                   events, received, last, appvars, handle, tail_last, watch_dir>>

\* a drop that does not send Stop
DropParser_Forgets ==
    /\ handle \in {"new", "watching"}
    /\ handle' = IF handle = "watching" /\ tail_pc = "running" THEN "dropped" ELSE "panicked"
    /\ UNCHANGED <<logfile, offset, opens, tail_pc, data_rx, parser_pc, parser_manager,
                   events, received, last, appvars, cmd_rx, tail_last, watch_dir>>

\* impl Drop for Parser: stop_tail().unwrap(), then the fields are dropped:
\* the command senders and the receiver of ParserMsg
DropParser ==
    /\ handle \in {"new", "watching"}
    /\ IF handle = "watching" /\ tail_pc = "running"
       THEN /\ cmd_rx' = Append(cmd_rx, StopCmd)
            /\ handle' = "dropped"
       ELSE /\ cmd_rx' = cmd_rx
            /\ handle' = "panicked"
    /\ UNCHANGED <<logfile, offset, opens, tail_pc, data_rx, parser_pc, parser_manager,
                   events, received, last, appvars, tail_last, watch_dir>>

\* what try_recv on the command channel returns: the oldest command, or NoCmd
\* for Empty and for Disconnected
TryRecvCmd == IF cmd_rx # <<>> THEN Head(cmd_rx) ELSE NoCmd

\* every command sender is gone and no command waits
CmdDisconnected == cmd_rx = <<>> /\ handle # "watching"

\* a loop whose Stop arm does not break
TailListen_IgnoresStop(n) ==
    /\ tail_pc = "running"
    /\ LET cmd == TryRecvCmd
           brk == CmdDisconnected
           fails == cmd.kind = "Open" /\ cmd.path = <<NoSuchFile>>
           file == IF fails THEN <<>> ELSE IF cmd.kind = "Open" THEN cmd.path ELSE logfile
           from == IF cmd.kind = "Open" THEN 0 ELSE offset
           reads == ~brk /\ file # <<>>
           buf == IF reads THEN SubSeq(file[1], from + 1, from + n) ELSE <<>>
           msgs == IF reads THEN <<Content(buf)>> ELSE <<>>
       IN /\ n \in (IF reads THEN {0} \cup ChunkSizes(Len(file[1]) - from) ELSE {0})
          /\ (reads /\ parser_pc = "running") => Len(data_rx) < MaxQueue
          /\ cmd_rx' = IF cmd_rx # <<>> THEN Tail(cmd_rx) ELSE cmd_rx
          /\ logfile' = file
          /\ offset' = from + n
          /\ tail_pc' = IF fails THEN "panicked" ELSE IF brk THEN "stopped" ELSE "running"
          /\ data_rx' = IF parser_pc = "running" THEN data_rx \o msgs ELSE data_rx
          /\ tail_last' = [cmd |-> cmd, read |-> buf, sent |-> msgs]
    /\ UNCHANGED <<opens, parser_pc, parser_manager, events, received, last, appvars, handle, watch_dir>>

\* a loop that opens the new file without closing the one it had
TailListen_KeepsHandles(n) ==
    /\ tail_pc = "running"
    /\ LET cmd == TryRecvCmd
           brk == cmd.kind = "Stop" \/ CmdDisconnected
           fails == cmd.kind = "Open" /\ cmd.path = <<NoSuchFile>>
           file == IF fails THEN <<>> ELSE IF cmd.kind = "Open" THEN cmd.path ELSE logfile
           from == IF cmd.kind = "Open" THEN 0 ELSE offset
           reads == ~brk /\ file # <<>>
           buf == IF reads THEN SubSeq(file[1], from + 1, from + n) ELSE <<>>
           msgs == IF reads THEN <<Content(buf)>> ELSE <<>>
       IN /\ n \in (IF reads THEN {0} \cup ChunkSizes(Len(file[1]) - from) ELSE {0})
          /\ (reads /\ parser_pc = "running") => Len(data_rx) < MaxQueue
          /\ cmd_rx' = IF cmd_rx # <<>> THEN Tail(cmd_rx) ELSE cmd_rx
          /\ logfile' = IF cmd.kind = "Open" /\ ~fails THEN file \o logfile ELSE file
          /\ offset' = from + n
          /\ tail_pc' = IF fails THEN "panicked" ELSE IF brk THEN "stopped" ELSE "running"
          /\ data_rx' = IF parser_pc = "running" THEN data_rx \o msgs ELSE data_rx
          /\ tail_last' = [cmd |-> cmd, read |-> buf, sent |-> msgs]
    /\ UNCHANGED <<opens, parser_pc, parser_manager, events, received, last, appvars, handle, watch_dir>>

\* one iteration of the loop of Tail::start_listen: the command, if any, then
\* the read of the open file, n tokens having been appended since the last
\* read, and the send of what was read. File::open(filepath).unwrap() panics
\* on a path that cannot be opened: the thread unwinds and drops its handle
\* and its sender
TailListen(n) ==
    /\ tail_pc = "running"
    /\ LET cmd == TryRecvCmd
           brk == cmd.kind = "Stop" \/ CmdDisconnected
           fails == cmd.kind = "Open" /\ cmd.path = <<NoSuchFile>>
           file == IF fails THEN <<>> ELSE IF cmd.kind = "Open" THEN cmd.path ELSE logfile
           from == IF cmd.kind = "Open" THEN 0 ELSE offset
           reads == ~brk /\ file # <<>>
           buf == IF reads THEN SubSeq(file[1], from + 1, from + n) ELSE <<>>
           msgs == IF reads THEN <<Content(buf)>> ELSE <<>>
       IN /\ n \in (IF reads THEN {0} \cup ChunkSizes(Len(file[1]) - from) ELSE {0})
          /\ (reads /\ parser_pc = "running") => Len(data_rx) < MaxQueue
          /\ cmd_rx' = IF cmd_rx # <<>> THEN Tail(cmd_rx) ELSE cmd_rx
          /\ logfile' = file
          /\ offset' = from + n
          /\ tail_pc' = IF fails THEN "panicked" ELSE IF brk THEN "stopped" ELSE "running"
          /\ data_rx' = IF parser_pc = "running" THEN data_rx \o msgs ELSE data_rx
          /\ tail_last' = [cmd |-> cmd, read |-> buf, sent |-> msgs]
    /\ UNCHANGED <<opens, parser_pc, parser_manager, events, received, last, appvars, handle, watch_dir>>

\* the Parser loop finds the data channel empty with its sender gone
ParserDisconnected ==
    /\ parser_pc = "running"
    /\ data_rx = <<>>
    /\ tail_pc \in {"stopped", "panicked"}
    /\ parser_pc' = "stopped"
    /\ UNCHANGED <<logfile, offset, opens, tail_pc, data_rx, parser_manager, events,
                   received, last, appvars, cmdvars>>

TailNext ==
    \/ \E found \in Scan(watch_dir) : StartWatcher(found)
    \/ \E f \in TailPaths : WatcherCreate(f)
    \/ StopTail
    \/ DropParser
    \/ \E n \in 0..MaxTailFileLen : TailListen(n)
    \/ ParserRecv
    \/ ParserDisconnected

\* weak fairness of ParserRecv, written out: ParserRecv is enabled exactly when
\* a message waits for a running Parser, and its steps are the steps that take
\* a message off data_rx
ParserRecvFairness ==
    \/ []<>(~(parser_pc = "running" /\ data_rx # <<>>))
    \/ []<><<Len(data_rx') < Len(data_rx)>>_vars

\* both loops run on threads of their own and sleep a bounded time per iteration
TailSpec ==
    /\ TailInit
    /\ [][TailNext]_vars
    /\ WF_vars(\E n \in 0..MaxTailFileLen : TailListen(n))
    /\ WF_vars(ParserDisconnected)
    /\ ParserRecvFairness

\* a start with no log file created afterwards: the startup scan alone
\* decides what the Tailer opens
ScanInit == NewParser /\ watch_dir \in ScanDirs

MaxScanFileLen == Max({Len(e.text) : e \in UNION ScanDirs})

ScanNext ==
    \/ \E found \in Scan(watch_dir) : StartWatcher(found)
    \/ StopTail
    \/ DropParser
    \/ \E n \in 0..MaxScanFileLen : TailListen(n)
    \/ ParserRecv
    \/ ParserDisconnected

ScanSpec == ScanInit /\ [][ScanNext]_vars

(* ------------------------------------------------------------------ *)
(* C16                                                                 *)
(* ------------------------------------------------------------------ *)
\* C16: the iteration in which the Tailer handles an Open command sends a
\* NewFile downstream before anything it reads from the newly opened file.
C16_NewFileBeforeContent ==
    (tail_last.cmd.kind = "Open" /\ tail_pc # "unstarted") =>
        /\ tail_last.sent # <<>>
        /\ tail_last.sent[1].kind = "NewFile"

(* ------------------------------------------------------------------ *)
(* C17                                                                 *)
(* ------------------------------------------------------------------ *)
\* C17: a Tailer iteration sends a Content delta exactly when it has read a
\* non-empty text from an open file, and the delta is that text: nothing is
\* sent with no file open, and no empty Content is ever sent.
C17_ContentIffNonEmptyRead ==
    /\ \A i \in 1..Len(tail_last.sent) :
          tail_last.sent[i].kind = "Content" => tail_last.sent[i].s # <<>>
    /\ tail_last.read # <<>> => Content(tail_last.read) \in {tail_last.sent[i] : i \in 1..Len(tail_last.sent)}
    /\ logfile = <<>> => tail_last.sent = <<>>

(* ------------------------------------------------------------------ *)
(* C18                                                                 *)
(* ------------------------------------------------------------------ *)
\* C18: the iteration in which the Tailer takes a Stop command sends exactly a
\* Stop signal downstream and ends the loop; nothing follows a Stop signal in
\* the data channel.
C18_StopFlushedDownstream ==
    /\ tail_last.cmd.kind = "Stop" =>
          /\ tail_last.sent = <<TailStopMsg>>
          /\ tail_pc = "stopped"
    /\ \A k \in 1..Len(data_rx) : data_rx[k].kind = "Stop" => k = Len(data_rx)

(* ------------------------------------------------------------------ *)
(* C19                                                                 *)
(* ------------------------------------------------------------------ *)
\* a Stop command waits in the command channel
StopQueued == \E k \in 1..Len(cmd_rx) : cmd_rx[k].kind = "Stop"

\* C19: once a Stop command has been sent to the Tailer, the Tailer loop ends,
\* and once the Tailer loop has ended the Parser loop ends too, whatever was
\* still queued.
C19_CancellationLiveness ==
    /\ StopQueued ~> (tail_pc \in {"stopped", "panicked"})
    /\ (tail_pc \in {"stopped", "panicked"}) ~> (parser_pc # "running")

\* the Tailer has ended on a Stop command with a delta still queued for a
\* running Parser
C19_Witness ==
    /\ handle = "watching"
    /\ tail_last.cmd.kind = "Stop"
    /\ tail_pc = "stopped"
    /\ data_rx # <<>>
    /\ parser_pc = "running"

(* ------------------------------------------------------------------ *)
(* C20                                                                 *)
(* ------------------------------------------------------------------ *)
\* C20: after the owning Parser value is dropped, eventually neither thread is
\* running; when the drop found the Tailer running, the Tailer ends by taking
\* a Stop command, as after an explicit stop_tail.
C20_DropShutsDown ==
    /\ (handle \in {"dropped", "panicked"}) ~> (tail_pc # "running" /\ parser_pc # "running")
    /\ [](handle = "dropped" /\ tail_pc = "stopped" => tail_last.cmd.kind = "Stop")

\* the handle was dropped while the Tailer had an open file, and both threads
\* have ended, the Parser with text in its buffer
C20_Witness ==
    /\ handle = "dropped"
    /\ tail_pc = "stopped" /\ logfile # <<>>
    /\ parser_pc = "stopped"
    /\ parser_manager.buffer # <<>>

(* ------------------------------------------------------------------ *)
(* C21                                                                 *)
(* ------------------------------------------------------------------ *)
\* C21: a failure to open the path of an Open command does not panic the
\* Tailer: the iteration that took the command sends an error event
\* downstream, and the consumer keeps running.
C21_OpenFailureSurfaced ==
    /\ tail_pc # "panicked"
    /\ tail_last.cmd = OpenCmd(NoSuchFile) => tail_last.sent # <<>>
    /\ mapper.pc = "running"

(* ------------------------------------------------------------------ *)
(* C22                                                                 *)
(* ------------------------------------------------------------------ *)
\* an iteration of the Tail loop: it alone changes these
TailStepped == <<tail_pc, logfile, offset, tail_last, cmd_rx>>' # <<tail_pc, logfile, offset, tail_last, cmd_rx>>

C23_OneFileHandle ==
    /\ Len(logfile) <= 1
    /\ (tail_last.cmd.kind = "Open" /\ tail_pc = "running") => logfile = tail_last.cmd.path

\* a second Open was handled while the file of the first was open
C23_Witness ==
    /\ opens = 2
    /\ cmd_rx = <<>>
    /\ tail_last.cmd.kind = "Open"
    /\ tail_pc = "running"
    /\ Len(logfile) = 1

(* ------------------------------------------------------------------ *)
(* C26                                                                 *)
(* ------------------------------------------------------------------ *)
\* the entries of the watched directory whose name holds the marker
SessionLogs == {e \in watch_dir : NameMatches(e)}

\* the texts of the session logs modified last
NewestSessionLogs == {<<e.text>> : e \in {m \in SessionLogs : \A o \in SessionLogs : o.modified <= m.modified}}

DataRundownFromRepr(n) ==
    CASE n = 31 -> "R7"
      [] n = 32 -> "R1"
      [] n = 33 -> "R2"
      [] n = 34 -> "R3"
      [] n = 35 -> "R8"
      [] n = 37 -> "R4"
      [] n = 38 -> "R5"
      [] n = 39 -> "Tutorial"
      [] n = 41 -> "R6"
      [] OTHER -> "Modded"

RundownCodes == {"31", "32", "33", "34", "35", "36", "37", "38", "39", "41"}

RundownFiles == { Seeds0 \o SessionLine(c, "A", "1") : c \in RundownCodes }

MaxRundownFileLen == Max({Len(f) : f \in RundownFiles})

RundownNext ==
    \/ \E f \in RundownFiles : TailOpen(f)
    \/ \E n \in 1..MaxRundownFileLen : TailTick(n)
    \/ TailStop
    \/ ParserRecv

RundownSpec == Init /\ [][RundownNext]_vars

\* the rundown code of the session line in the text handled since NewFile
SelectedCode == received[(CHOOSE i \in 1..Len(received) : received[i] = SM) + 1]

\* C27: the LevelInit sent by the session-selected step carries the rundown
\* the table gives for the code of the session line: 31 R7, 32 R1, 33 R2,
\* 34 R3, 35 R8, 37 R4, 38 R5, 39 Tutorial, 41 R6, any other code Modded.
C27_RundownTable ==
    (ContentDoneIn("LevelSelected") /\ last.out # <<>>) =>
        last.out[1].v.rundown = DataRundownFromRepr(ToInt(Digits(SelectedCode)))

(* ------------------------------------------------------------------ *)
(* The consumer against every log of events                            *)
(* ------------------------------------------------------------------ *)
MaxLog == 4

\* the "Autoscroll to Bottom" checkbox
ToggleAutoscroll ==
    /\ mapper.pc = "running"
    /\ mapper' = [mapper EXCEPT !.scroll_to_bottom = ~@]
    /\ UNCHANGED <<logfile, offset, opens, tail_pc, data_rx, parser_pc, parser_manager,
                   events, received, last, parser_rx, sent, consumed, cmdvars>>

Zone10Reality == ZoneOf(<<1, 0>>, <<0>>, Dim(CR), Layer(CR))
Zone10Dimension1 == ZoneOf(<<1, 0>>, <<1>>, Dim(CD), Layer(CD))

\* the events a log is made of, by number
FoldEventNumbers == 1..6

FoldEvent(i) ==
    CASE i = 1 -> NewFileMsg
      [] i = 2 -> LevelSeedsMsg(<<7>>, <<8>>, <<9>>)
      [] i = 3 -> LevelInitMsg("R8", <<"C", "2">>)
      [] i = 4 -> GeneratedZoneMsg(Zone10Reality)
      [] i = 5 -> GeneratedZoneMsg(Zone10Dimension1)
      [] i = 6 -> GatherableMsg("Seeded", <<"Box">>, <<5>>)

\* the Parser has sent a log of events and ended; the consumer has yet to
\* receive the first of them
FoldInit ==
    /\ logfile = <<>>
    /\ offset = 0
    /\ opens = 0
    /\ tail_pc = "stopped"
    /\ data_rx = <<>>
    /\ parser_pc = "stopped"
    /\ parser_manager = ParserManagerDefault
    /\ events = <<>>
    /\ received = <<>>
    /\ last = [msg |-> NoMsg, from |-> ParserManagerDefault, out |-> <<>>]
    /\ \E n \in 0..MaxLog : \E ix \in [1..n -> FoldEventNumbers] :
          parser_rx = [k \in 1..n |-> FoldEvent(ix[k])]
    /\ sent = parser_rx
    /\ consumed = <<>>
    /\ mapper = MapperDefault
    /\ cmd_rx = <<>>
    /\ handle = "watching"
    /\ tail_last = [cmd |-> NoCmd, read |-> <<>>, sent |-> <<>>]
    /\ watch_dir = {}

FoldNext ==
    \/ MapperUpdate
    \/ ToggleAutoscroll

FoldSpec == FoldInit /\ [][FoldNext]_vars

(* ------------------------------------------------------------------ *)
(* C24                                                                 *)
(* ------------------------------------------------------------------ *)
\* C24: after the consumer has handled a NewFile its seeds, its expedition,
\* with the zones it held, and its gatherables are those of the default
\* Mapper, whatever they were before; the step that handles the NewFile leaves
\* the autoscroll flag as it was.
C24_NewFileClearsAggregate ==
    /\ [](consumed # <<>> /\ consumed[Len(consumed)].kind = "NewFile" =>
             /\ mapper.seeds = MapperDefault.seeds
             /\ mapper.expedition = MapperDefault.expedition
             /\ mapper.gatherables = MapperDefault.gatherables)
    /\ [][(parser_rx # <<>> /\ Head(parser_rx).kind = "NewFile" /\ consumed' # consumed) =>
             mapper'.scroll_to_bottom = mapper.scroll_to_bottom]_vars

\* a NewFile was handled by a consumer that held an expedition with a zone
\* and a gatherable, and had autoscroll switched off
C24_Witness ==
    /\ Len(consumed) = 4
    /\ consumed[1].kind = "LevelInit"
    /\ consumed[2].kind = "GeneratedZone"
    /\ consumed[3].kind = "Gatherable"
    /\ consumed[4].kind = "NewFile"
    /\ ~mapper.scroll_to_bottom
    /\ mapper.expedition = <<>> /\ mapper.gatherables = <<>>

(* ------------------------------------------------------------------ *)
(* impl Index<u32> and impl Index<(u32, String)> for Level             *)
(* ------------------------------------------------------------------ *)
RECURSIVE FindByAlias(_, _)
RECURSIVE FindByAliasDimension(_, _, _)

\* a lookup that searches from the end of the list
FindByAlias_Last(zones, alias) ==
    LET hits == {i \in 1..Len(zones) : zones[i].alias = alias}
    IN IF hits = {} THEN <<>> ELSE <<zones[Max(hits)]>>

\* self.zones.iter().find(|v| v.alias == index): the Option that index()
\* unwraps, None being the panic of the lookup
FindByAlias(zones, alias) ==
    IF zones = <<>> THEN <<>>
    ELSE IF Head(zones).alias = alias THEN <<Head(zones)>>
    ELSE FindByAlias(Tail(zones), alias)

\* self.zones.iter().find(|v| v.alias == index.0 && v.dimension.eq(&index.1))
FindByAliasDimension(zones, alias, dimension) ==
    IF zones = <<>> THEN <<>>
    ELSE IF Head(zones).alias = alias /\ Head(zones).dimension = dimension THEN <<Head(zones)>>
    ELSE FindByAliasDimension(Tail(zones), alias, dimension)

(* ------------------------------------------------------------------ *)
(* C28                                                                 *)
(* ------------------------------------------------------------------ *)
\* the zone list of the consumer's Level
LevelZones == IF mapper.expedition = <<>> THEN <<>> ELSE mapper.expedition[1].zones

LookupAliases == {<<1, 0>>, <<1, 1>>}
LookupDimensions == {Dim(CR), Dim(CD)}

\* a lookup fails exactly when no zone of the list has the key
FailsOnlyWithoutMatch ==
    \A a \in LookupAliases :
        /\ FindByAlias(LevelZones, a) = <<>> <=>
              ~\E i \in 1..Len(LevelZones) : LevelZones[i].alias = a
        /\ \A d \in LookupDimensions :
              FindByAliasDimension(LevelZones, a, d) = <<>> <=>
                 ~\E i \in 1..Len(LevelZones) :
                      LevelZones[i].alias = a /\ LevelZones[i].dimension = d

FirstWithAlias(a) == CHOOSE i \in 1..Len(LevelZones) :
    /\ LevelZones[i].alias = a
    /\ \A j \in 1..(i - 1) : LevelZones[j].alias # a

FirstWithAliasDimension(a, d) == CHOOSE i \in 1..Len(LevelZones) :
    /\ LevelZones[i].alias = a /\ LevelZones[i].dimension = d
    /\ \A j \in 1..(i - 1) : ~(LevelZones[j].alias = a /\ LevelZones[j].dimension = d)

PlacesOfKind(k) == {i \in 1..Len(events) : events[i].kind = k}

\* C29: among the events the Parser has sent since the last NewFile there is
\* at most one LevelSeeds and at most one LevelInit; a LevelInit comes after
\* a LevelSeeds, and every GeneratedZone comes after a LevelInit.
C29_OneSeedsOneInitInOrder ==
    /\ Cardinality(PlacesOfKind("LevelSeeds")) <= 1
    /\ Cardinality(PlacesOfKind("LevelInit")) <= 1
    /\ \A i \in PlacesOfKind("LevelInit") : \E j \in PlacesOfKind("LevelSeeds") : j < i
    /\ \A i \in PlacesOfKind("GeneratedZone") : \E j \in PlacesOfKind("LevelInit") : j < i

\* the Parser has sent seeds, a level and two zones for the second file
C29_Witness ==
    /\ opens = 2
    /\ Len(events) = 5
    /\ events[1].kind = "NewFile"
    /\ events[2].kind = "LevelSeeds"
    /\ events[3].kind = "LevelInit"
    /\ events[4].kind = "GeneratedZone" /\ events[5].kind = "GeneratedZone"

(* ------------------------------------------------------------------ *)
(* Tailer, Parser and consumer over a log with a zone batch            *)
(* ------------------------------------------------------------------ *)
ZoneFiles == { Seeds0 \o Session0 \o BatchOf(Zone10) }

MaxZoneFileLen == Max({Len(f) : f \in ZoneFiles})

ZoneNext ==
    \/ \E f \in ZoneFiles : TailOpen(f)
    \/ \E n \in 1..MaxZoneFileLen : TailTick(n)
    \/ ParserSend
    \/ MapperUpdate

ZoneSpec == Init /\ [][ZoneNext]_vars

(* ------------------------------------------------------------------ *)
(* C30                                                                 *)
(* ------------------------------------------------------------------ *)
\* C30: the consumer's update never panics: whenever it takes a GeneratedZone
\* from the channel its expedition is present, a LevelInit having been
\* applied after the last NewFile.
C30_ExpeditionPresentForZone ==
    /\ mapper.pc = "running"
    /\ (parser_rx # <<>> /\ Head(parser_rx).kind = "GeneratedZone") => mapper.expedition # <<>>

\* the consumer has applied the zone of the second file
C30_Witness ==
    /\ opens = 2
    /\ consumed # <<>>
    /\ consumed[Len(consumed)].kind = "GeneratedZone"
    /\ mapper.expedition # <<>>
    /\ Len(mapper.expedition[1].zones) = 1

(* ------------------------------------------------------------------ *)
(* C31                                                                 *)
(* ------------------------------------------------------------------ *)
\* the buffer the iteration done last matched against: the delta appended
HandledBuffer == last.from.buffer \o last.msg.s

\* C31: when a delta handled in LevelGeneration finds both a batch-start and
\* a batch-end in the buffer, the start offset chosen is not greater than the
\* end offset chosen, and the slice between them does not panic.
C31_SliceWithinBounds ==
    (/\ ContentDoneIn("LevelGeneration")
     /\ SETUP_FLOOR_BATCH_START(HandledBuffer) # <<>>
     /\ SETUP_FLOOR_BATCH_END(HandledBuffer) # <<>>) =>
        /\ SETUP_FLOOR_BATCH_START(HandledBuffer)[1].start
              <= SETUP_FLOOR_BATCH_END(HandledBuffer)[1].end
        /\ parser_pc # "panicked"

(* ------------------------------------------------------------------ *)
(* The Tailer and the Parser, each loop on a thread of its own, over a  *)
(* file holding the seeds line and the session line                    *)
(* ------------------------------------------------------------------ *)
ProgressFiles == { Seeds0 \o Session0 }

MaxProgressFileLen == Max({Len(f) : f \in ProgressFiles})

ProgressNext ==
    \/ \E f \in ProgressFiles : TailOpen(f)
    \/ \E n \in 1..MaxProgressFileLen : TailTick(n)
    \/ TailStop
    \/ ParserRecv

\* the Tailer reads what is there to read, the Parser takes what waits in
\* its channel
ProgressSpec ==
    /\ Init
    /\ [][ProgressNext]_vars
    /\ WF_vars(\E n \in 1..MaxProgressFileLen : TailTick(n))
    /\ ParserRecvFairness

(* ------------------------------------------------------------------ *)
(* C32                                                                 *)
(* ------------------------------------------------------------------ *)
\* the buffer holds a whole match of the pattern that state st waits for
AwaitedInBuffer(st) ==
    CASE st = "LevelSeeds" -> BUILDER_LEVEL_SEEDS(parser_manager.buffer) # <<>>
      [] st = "LevelSelected" -> DROP_SERVER_MANAGER_NEW_SESSION(parser_manager.buffer) # <<>>
      [] st = "LevelGeneration" ->
            /\ SETUP_FLOOR_BATCH_START(parser_manager.buffer) # <<>>
            /\ SETUP_FLOOR_BATCH_END(parser_manager.buffer) # <<>>

\* the running Parser is in state st with the pattern of st in its buffer
Awaiting(st) ==
    /\ parser_pc = "running"
    /\ parser_manager.state = st
    /\ AwaitedInBuffer(st)

C33_DropNeverPanics ==
    [][(handle \in {"new", "watching"} /\ handle' \notin {"new", "watching"}) =>
          handle' = "dropped"]_vars

(* ------------------------------------------------------------------ *)
(* The two loops over a session log whose seeds line holds a number    *)
(* beyond u32: the Parser loop ends on the conversion error            *)
(* ------------------------------------------------------------------ *)
FaultyLog ==
    DirEntry(<<"GTFO.2024.01.03.", NICKNAME_NETSTATUS, ".txt">>, 3,
             SeedsLine(<<"4294967296">>, <<"8">>, <<"9">>))

ExitDirs == { {FaultyLog}, {NewerLog} }

ExitInit == NewParser /\ watch_dir \in ExitDirs

MaxExitFileLen == Max({Len(e.text) : e \in UNION ExitDirs})

ExitNext ==
    \/ \E found \in Scan(watch_dir) : StartWatcher(found)
    \/ StopTail
    \/ DropParser
    \/ \E n \in 0..MaxExitFileLen : TailListen(n)
    \/ ParserRecv
    \/ ParserDisconnected

\* both loops run on threads of their own and sleep a bounded time per iteration
ExitSpec ==
    /\ ExitInit
    /\ [][ExitNext]_vars
    /\ WF_vars(\E n \in 0..MaxExitFileLen : TailListen(n))
    /\ WF_vars(ParserDisconnected)
    /\ ParserRecvFairness

(* ------------------------------------------------------------------ *)
(* C34                                                                 *)
(* ------------------------------------------------------------------ *)
\* the Parser loop has ended: on Stop or a disconnect, or with an error
ParserExited == parser_pc \in {"stopped", "failed", "panicked"}

\* C34: once the Parser loop has ended the Tail loop ends too, with no
\* command needed: its next send on the data channel fails and stops it.
C34_TailerFollowsParser == ParserExited ~> (tail_pc # "running")

(* ------------------------------------------------------------------ *)
(* Zone: derived PartialEq, impl Ord, impl PartialOrd                  *)
(* ------------------------------------------------------------------ *)
\* u32::cmp on canonical digit sequences
U32Cmp(a, b) ==
    IF a = b THEN "Equal"
    ELSE IF Len(a) # Len(b) THEN (IF Len(a) < Len(b) THEN "Less" ELSE "Greater")
    ELSE IF LexGreater(a, b) THEN "Greater" ELSE "Less"

\* the dimension and layer names of the logs, in the byte order of str::cmp
StrOrder == <<"Dimension_1", "MainLayer", "Reality", "SecondaryLayer">>

StrRank(x) == CHOOSE i \in 1..Len(StrOrder) : StrOrder[i] = x

\* String::cmp
StrCmp(x, y) ==
    IF StrRank(x) < StrRank(y) THEN "Less"
    ELSE IF StrRank(x) > StrRank(y) THEN "Greater" ELSE "Equal"

\* the derived PartialEq of Zone: every field
ZoneEq(a, b) ==
    /\ a.alias = b.alias
    /\ a.local = b.local
    /\ a.dimension = b.dimension
    /\ a.layer = b.layer
    /\ a.area = b.area

\* Ord::cmp of Zone: the tuples (alias, layer, dimension)
ZoneCmp(a, b) ==
    IF U32Cmp(a.alias, b.alias) # "Equal" THEN U32Cmp(a.alias, b.alias)
    ELSE IF StrCmp(a.layer, b.layer) # "Equal" THEN StrCmp(a.layer, b.layer)
    ELSE StrCmp(a.dimension, b.dimension)

\* PartialOrd::partial_cmp of Zone: Some of the same tuples compared
ZonePartialCmp(a, b) ==
    << IF U32Cmp(a.alias, b.alias) # "Equal" THEN U32Cmp(a.alias, b.alias)
       ELSE IF StrCmp(a.layer, b.layer) # "Equal" THEN StrCmp(a.layer, b.layer)
       ELSE StrCmp(a.dimension, b.dimension) >>

\* the zones the Parser can send: alias and local index of a stanza, the
\* dimension and layer of its "Zone Created" line, no area
OrdAliases == {<<2>>, <<1, 0>>, <<1, 1>>}
OrdLocals == {<<0>>, <<1>>}
OrdZones == {ZoneOf(a, l, Dim(c), Layer(c)) : a \in OrdAliases, l \in OrdLocals, c \in CreatedToks}

\* the consumer holds a Level with one zone and the next GeneratedZone waits
\* in its channel; the Parser has ended
OrdInit ==
    /\ logfile = <<>>
    /\ offset = 0
    /\ opens = 0
    /\ tail_pc = "stopped"
    /\ data_rx = <<>>
    /\ parser_pc = "stopped"
    /\ parser_manager = ParserManagerDefault
    /\ events = <<>>
    /\ received = <<>>
    /\ last = [msg |-> NoMsg, from |-> ParserManagerDefault, out |-> <<>>]
    /\ \E a \in OrdZones, b \in OrdZones :
          /\ mapper = [MapperDefault EXCEPT
                          !.expedition = <<[level |-> LevelInitMsg("R8", <<"C", "2">>).v,
                                            zones |-> <<a>>]>>]
          /\ parser_rx = <<GeneratedZoneMsg(b)>>
    /\ sent = parser_rx
    /\ consumed = <<>>
    /\ cmd_rx = <<>>
    /\ handle = "watching"
    /\ tail_last = [cmd |-> NoCmd, read |-> <<>>, sent |-> <<>>]
    /\ watch_dir = {}

OrdSpec == OrdInit /\ [][FoldNext]_vars

(* ------------------------------------------------------------------ *)
(* C35                                                                 *)
(* ------------------------------------------------------------------ *)
\* C35: for all zones a and b of a Level, a.cmp(b) is Equal exactly when
\* a == b, and a.partial_cmp(b) is Some(a.cmp(b)).
C35_OrdConsistentWithEq ==
    \A i \in 1..Len(LevelZones), j \in 1..Len(LevelZones) :
        /\ (ZoneCmp(LevelZones[i], LevelZones[j]) = "Equal") <=> ZoneEq(LevelZones[i], LevelZones[j])
        /\ ZonePartialCmp(LevelZones[i], LevelZones[j]) = <<ZoneCmp(LevelZones[i], LevelZones[j])>>

====
